---- MODULE Spec2Model ----
(***************************************************************************)
(* Model of find.py: find_duplicate_emp_ids(file_name).                    *)
(*                                                                         *)
(* One invocation of the function is a straight-line run through the       *)
(* numbered steps of the source.  The state is the file the path names,    *)
(* the function's local variables (df, id_counts, duplicate_ids,           *)
(* df_duplicates), the position in the function (pc), the exception that   *)
(* left the function (exc) and the lines written to standard output.       *)
(*                                                                         *)
(* The pandas calls are modelled by what they do to the data the function  *)
(* looks at: read_json builds one column per key that occurs in any record *)
(* and fills the holes with NaN, value_counts drops NaN, counts the        *)
(* remaining values and orders them by descending count (the order among   *)
(* equal counts is not fixed by the library, so it is a free choice).      *)
(***************************************************************************)
EXTENDS Integers, Sequences, FiniteSets, TLC

\* ---------------------------------------------------------------- bounds
MaxRows == 5

\* ------------------------------------------------------------- constants
EmpId    == "EMP ID"
CountCol == "Count of Entries"
Ids      == {"A", "B", "C"}
JsonNull == "null"
NaN      == "NaN"
FileNames == {"membercsvjson.json"}

NoDupText == "No EMP IDs were found with more than one entry in the data."

\* ------------------------------------------------------------ the inputs
\* A JSON object of the input array: it either carries the "EMP ID" key
\* (with an identifier or with null) or it does not carry it at all.
NoKeyRecord == [c \in {} |-> JsonNull]
JsonRecords == {NoKeyRecord} \cup {[c \in {EmpId} |-> v] : v \in Ids \cup {JsonNull}}

RecordSeqs == UNION {[1..n -> JsonRecords] : n \in 0..MaxRows}

\* What the path names: nothing, a file that cannot be read, a file whose
\* content is not JSON, or a JSON array of objects.
Files ==
    {[kind |-> k, records |-> <<>>] : k \in {"missing", "unreadable", "malformed"}}
    \cup {[kind |-> "records", records |-> rs] : rs \in RecordSeqs}

VARIABLES file_name, file, pc, exc, df, id_counts, duplicate_ids, df_duplicates, stdout

vars == <<file_name, file, pc, exc, df, id_counts, duplicate_ids, df_duplicates, stdout>>

\* ------------------------------------------------------ pandas operations
\* pd.read_json on an array of objects: the columns are the keys that occur
\* in any object, and a row gets NaN for a column its object does not carry
\* or carries as null.
Columns(records) == UNION {DOMAIN records[i] : i \in 1..Len(records)}

ColumnsAlwaysEmpId(records) == Columns(records) \cup {EmpId}

read_json_columns(records) == Columns(records)

read_json(records) ==
    [columns |-> read_json_columns(records),
     rows    |-> [i \in 1..Len(records) |->
                    [c \in read_json_columns(records) |->
                        IF c \in DOMAIN records[i] /\ records[i][c] # JsonNull
                        THEN records[i][c]
                        ELSE NaN]]]

\* df['EMP ID']: the column as a sequence of values.
Column(frame, c) == [i \in 1..Len(frame.rows) |-> frame.rows[i][c]]

Occurrences(col, v) == Cardinality({i \in 1..Len(col) : col[i] = v})

Values(col) == {col[i] : i \in 1..Len(col)}

IsInjective(s) == \A i, j \in 1..Len(s) : s[i] = s[j] => i = j

Series(col, s) == [i \in 1..Len(s) |-> [key |-> s[i], count |-> Occurrences(col, s[i])]]

\* The orders in which the keys ks may appear after the sort by count.
OrderingsAscending(col, ks) ==
    {s \in [1..Cardinality(ks) -> ks] :
        /\ IsInjective(s)
        /\ \A i \in 1..(Len(s) - 1) :
              Occurrences(col, s[i]) <= Occurrences(col, s[i + 1])}

Orderings(col, ks) ==
    {s \in [1..Cardinality(ks) -> ks] :
        /\ IsInjective(s)
        /\ \A i \in 1..(Len(s) - 1) :
              Occurrences(col, s[i]) >= Occurrences(col, s[i + 1])}

\* Series.value_counts() with its defaults (sort=True, ascending=False,
\* dropna=True): the set of results the library may produce.
value_counts_keepna(col) ==
    {Series(col, s) : s \in Orderings(col, Values(col))}

value_counts_ascending(col) ==
    {Series(col, s) : s \in OrderingsAscending(col, Values(col) \ {NaN})}

value_counts(col) ==
    {Series(col, s) : s \in Orderings(col, Values(col) \ {NaN})}

\* id_counts[id_counts > 1]: boolean-mask selection, order kept.
IsDuplicate(e) == e.count > 1
IsPresent(e)   == e.count >= 1

MaskGE1(series) == SelectSeq(series, IsPresent)

MaskGT1(series) == SelectSeq(series, IsDuplicate)

\* duplicate_ids.reset_index() followed by the assignment to .columns.
ToFrame(series) ==
    [columns |-> <<EmpId, CountCol>>,
     rows    |-> [i \in 1..Len(series) |->
                    (EmpId :> series[i].key) @@ (CountCol :> series[i].count)]]

\* ------------------------------------------------------- standard output
ErrorLine(name) == [kind |-> "error",  text |-> <<"Error: File '", name, "' not found.">>]
NoDupLine       == [kind |-> "nodups", text |-> NoDupText]
HeaderLine(n)   == [kind |-> "header", n |-> n]
TableBlock(frame) == [kind |-> "table", columns |-> frame.columns, rows |-> frame.rows]

\* ------------------------------------------------------------------ Init
EmptyFrame == [columns |-> {}, rows |-> <<>>]
EmptyTable == [columns |-> <<>>, rows |-> <<>>]

Init ==
    /\ file_name \in FileNames
    /\ file \in Files
    /\ pc = "load"
    /\ exc = "none"
    /\ df = EmptyFrame
    /\ id_counts = <<>>
    /\ duplicate_ids = <<>>
    /\ df_duplicates = EmptyTable
    /\ stdout = <<>>

\* --------------------------------------------------------------- actions
\* lines 9-11: the load succeeds.
LoadOk ==
    /\ pc = "load"
    /\ file.kind = "records"
    /\ df' = read_json(file.records)
    /\ pc' = "count"
    /\ UNCHANGED <<file_name, file, exc, id_counts, duplicate_ids, df_duplicates, stdout>>

\* lines 12-14: FileNotFoundError is caught, reported, and the function returns.
LoadNotFound_Uncaught ==
    /\ pc = "load"
    /\ file.kind = "missing"
    /\ exc' = "FileNotFoundError"
    /\ pc' = "raised"
    /\ UNCHANGED <<file_name, file, df, id_counts, duplicate_ids, df_duplicates, stdout>>

LoadNotFound ==
    /\ pc = "load"
    /\ file.kind = "missing"
    /\ stdout' = Append(stdout, ErrorLine(file_name))
    /\ pc' = "returned"
    /\ UNCHANGED <<file_name, file, exc, df, id_counts, duplicate_ids, df_duplicates>>

\* lines 9-12: any other exception of read_json matches no except clause.
LoadError(kind) ==
    IF kind = "malformed" THEN "ValueError" ELSE "PermissionError"

LoadFails_Caught ==
    /\ pc = "load"
    /\ file.kind \in {"malformed", "unreadable"}
    /\ stdout' = Append(stdout, ErrorLine(file_name))
    /\ pc' = "returned"
    /\ UNCHANGED <<file_name, file, exc, df, id_counts, duplicate_ids, df_duplicates>>

LoadFails ==
    /\ pc = "load"
    /\ file.kind \in {"malformed", "unreadable"}
    /\ exc' = LoadError(file.kind)
    /\ pc' = "raised"
    /\ UNCHANGED <<file_name, file, df, id_counts, duplicate_ids, df_duplicates, stdout>>

\* line 17, df['EMP ID'] on a frame without that column.
CountKeyError ==
    /\ pc = "count"
    /\ EmpId \notin df.columns
    /\ exc' = "KeyError"
    /\ pc' = "raised"
    /\ UNCHANGED <<file_name, file, df, id_counts, duplicate_ids, df_duplicates, stdout>>

\* line 17.
Count ==
    /\ pc = "count"
    /\ EmpId \in df.columns
    /\ id_counts' \in value_counts(Column(df, EmpId))
    /\ pc' = "filter"
    /\ UNCHANGED <<file_name, file, exc, df, duplicate_ids, df_duplicates, stdout>>

\* line 20.
Filter_GE1 ==
    /\ pc = "filter"
    /\ duplicate_ids' = MaskGE1(id_counts)
    /\ pc' = "check"
    /\ UNCHANGED <<file_name, file, exc, df, id_counts, df_duplicates, stdout>>

Filter_InPlace ==
    /\ pc = "filter"
    /\ duplicate_ids' = MaskGT1(id_counts)
    /\ id_counts' = MaskGT1(id_counts)
    /\ pc' = "check"
    /\ UNCHANGED <<file_name, file, exc, df, df_duplicates, stdout>>

Filter ==
    /\ pc = "filter"
    /\ duplicate_ids' = MaskGT1(id_counts)
    /\ pc' = "check"
    /\ UNCHANGED <<file_name, file, exc, df, id_counts, df_duplicates, stdout>>

\* lines 23-25.
ReportNoDuplicates_FallThrough ==
    /\ pc = "check"
    /\ Len(duplicate_ids) = 0
    /\ stdout' = Append(stdout, NoDupLine)
    /\ pc' = "header"
    /\ UNCHANGED <<file_name, file, exc, df, id_counts, duplicate_ids, df_duplicates>>

ReportNoDuplicates ==
    /\ pc = "check"
    /\ Len(duplicate_ids) = 0
    /\ stdout' = Append(stdout, NoDupLine)
    /\ pc' = "returned"
    /\ UNCHANGED <<file_name, file, exc, df, id_counts, duplicate_ids, df_duplicates>>

\* line 23, the branch not taken.
HasDuplicates ==
    /\ pc = "check"
    /\ Len(duplicate_ids) # 0
    /\ pc' = "header"
    /\ UNCHANGED <<file_name, file, exc, df, id_counts, duplicate_ids, df_duplicates, stdout>>

\* line 27.
PrintHeader_AllIds ==
    /\ pc = "header"
    /\ stdout' = Append(stdout, HeaderLine(Len(id_counts)))
    /\ pc' = "build"
    /\ UNCHANGED <<file_name, file, exc, df, id_counts, duplicate_ids, df_duplicates>>

PrintHeader ==
    /\ pc = "header"
    /\ stdout' = Append(stdout, HeaderLine(Len(duplicate_ids)))
    /\ pc' = "build"
    /\ UNCHANGED <<file_name, file, exc, df, id_counts, duplicate_ids, df_duplicates>>

\* lines 31-32.
BuildTable ==
    /\ pc = "build"
    /\ df_duplicates' = ToFrame(duplicate_ids)
    /\ pc' = "print"
    /\ UNCHANGED <<file_name, file, exc, df, id_counts, duplicate_ids, stdout>>

\* line 34.
PrintTable_Skipped ==
    /\ pc = "print"
    /\ pc' = "returned"
    /\ UNCHANGED <<file_name, file, exc, df, id_counts, duplicate_ids, df_duplicates, stdout>>

PrintTable ==
    /\ pc = "print"
    /\ stdout' = Append(stdout, TableBlock(df_duplicates))
    /\ pc' = "returned"
    /\ UNCHANGED <<file_name, file, exc, df, id_counts, duplicate_ids, df_duplicates>>

Next ==
    \/ LoadOk
    \/ LoadNotFound
    \/ LoadFails
    \/ CountKeyError
    \/ Count
    \/ Filter
    \/ ReportNoDuplicates
    \/ HasDuplicates
    \/ PrintHeader
    \/ BuildTable
    \/ PrintTable

Spec == Init /\ [][Next]_vars

\* ------------------------------------------------- notions of the claims
\* These are stated over the input (file.records) and the printed output,
\* not through the operators the actions are built from.
Terminated == pc \in {"returned", "raised"}

IsRecordsInput == file.kind = "records"

Carries(r) == EmpId \in DOMAIN r

HasIdentifier(r) == Carries(r) /\ r[EmpId] # JsonNull

InputCount(id) ==
    Cardinality({i \in 1..Len(file.records) :
                    Carries(file.records[i]) /\ file.records[i][EmpId] = id})

InputIds == {id \in Ids : InputCount(id) >= 1}

InputDupIds == {id \in Ids : InputCount(id) > 1}

IdentifiedRows == {i \in 1..Len(file.records) : HasIdentifier(file.records[i])}

Kinds(out) == [i \in 1..Len(out) |-> out[i].kind]

IsReport(out) == Kinds(out) = <<"header", "table">>

IsNoDupOutput(out) == Kinds(out) = <<"nodups">> /\ out[1].text = NoDupText

IsNotFoundOutput(out) ==
    Kinds(out) = <<"error">> /\ out[1].text = <<"Error: File '", file_name, "' not found.">>

Prints(k) == \E i \in 1..Len(stdout) : stdout[i].kind = k

TableRows == stdout[Len(stdout)].rows

TablePrinted == Len(stdout) > 0 /\ stdout[Len(stdout)].kind = "table"

RECURSIVE SumCounts(_)
SumCounts(series) ==
    IF Len(series) = 0 THEN 0 ELSE series[1].count + SumCounts(Tail(series))

\* The frequency table has been built (line 17 has run).
Counted ==
    /\ IsRecordsInput
    /\ pc \in {"filter", "check", "header", "build", "print", "returned"}

\* The duplicate subset has been built (line 20 has run).
Filtered ==
    /\ IsRecordsInput
    /\ pc \in {"check", "header", "build", "print", "returned"}

Entries(series) == {series[i] : i \in 1..Len(series)}

\* ------------------------------------------------------------------- C1
\* C1: when some identifier occurs k > 1 times in the input records, the run
\* returns with a header and a table, every such identifier has a table row
\* with count exactly k, and the number in the header is the number of
\* identifiers that occur more than once.
C1_DuplicatesReported ==
    (Terminated /\ IsRecordsInput /\ InputDupIds # {}) =>
        /\ pc = "returned"
        /\ IsReport(stdout)
        /\ stdout[1].n = Cardinality(InputDupIds)
        /\ \A id \in InputDupIds :
              \E i \in 1..Len(stdout[2].rows) :
                 /\ stdout[2].rows[i][EmpId] = id
                 /\ stdout[2].rows[i][CountCol] = InputCount(id)

C1_Witness ==
    /\ pc = "returned"
    /\ IsRecordsInput
    /\ Cardinality(InputDupIds) = 2
    /\ InputIds # InputDupIds
    /\ IsReport(stdout)

\* ------------------------------------------------------------------- C2
\* C2 as stated: when every identifier of the input records occurs exactly
\* once, the whole output is the single no-duplicates line: no header, no
\* table, no failure.
C2_UniqueIdsGiveOnlyMessage ==
    (Terminated /\ IsRecordsInput /\ \A id \in InputIds : InputCount(id) = 1) =>
        /\ pc = "returned"
        /\ IsNoDupOutput(stdout)

\* C2 as amended: when at least one record carries the "EMP ID" field and
\* every identifier of the input records occurs exactly once, the whole
\* output is the single no-duplicates line: no header, no table, no failure.
C2_UniqueIdsWithFieldGiveOnlyMessage ==
    (/\ Terminated
     /\ IsRecordsInput
     /\ \E i \in 1..Len(file.records) : Carries(file.records[i])
     /\ \A id \in InputIds : InputCount(id) = 1) =>
        /\ pc = "returned"
        /\ exc = "none"
        /\ IsNoDupOutput(stdout)

C2_Witness ==
    /\ pc = "returned"
    /\ IsRecordsInput
    /\ Cardinality(InputIds) = 3
    /\ \A id \in InputIds : InputCount(id) = 1
    /\ IsNoDupOutput(stdout)

\* ------------------------------------------------------------------- C3
\* C3: on a path that names no file the function never reaches the grouping
\* or filtering steps, raises nothing, and once it has returned the output
\* is the file-not-found line alone.
C3_MissingFileReported ==
    (file.kind = "missing") =>
        /\ pc \in {"load", "returned"}
        /\ exc = "none"
        /\ id_counts = <<>> /\ duplicate_ids = <<>> /\ df_duplicates = EmptyTable
        /\ ~Prints("header") /\ ~Prints("table") /\ ~Prints("nodups")
        /\ pc = "returned" => IsNotFoundOutput(stdout)

C3_Witness ==
    /\ file.kind = "missing"
    /\ pc = "returned"
    /\ IsNotFoundOutput(stdout)

\* ------------------------------------------------------------------- C4
\* C4 as stated: the counts of the full frequency table add up to the number
\* of input records, also when records have no value for "EMP ID".
C4_SumEqualsAllRecords ==
    Counted => SumCounts(id_counts) = Len(file.records)

\* C4 as amended: the counts of the full frequency table add up to the
\* number of input records that have a non-null "EMP ID" value.
C4_SumEqualsIdentifiedRecords ==
    Counted => SumCounts(id_counts) = Cardinality(IdentifiedRows)

C4_Witness ==
    /\ Counted
    /\ pc = "filter"
    /\ Cardinality(IdentifiedRows) >= 2
    /\ Cardinality(IdentifiedRows) < Len(file.records)
    /\ \E i \in 1..Len(file.records) :
          Carries(file.records[i]) /\ ~HasIdentifier(file.records[i])

\* ------------------------------------------------------------------- C5
\* C5: a run that has returned printed exactly one of: the header followed
\* by a two-column table of the duplicated identifiers, the no-duplicates
\* line alone, the file-not-found line alone.  A header is always directly
\* followed by the table.
C5_OneOfThreeOutputs ==
    (pc = "returned") =>
        /\ \/ /\ IsReport(stdout)
              /\ stdout[2].columns = <<EmpId, CountCol>>
              /\ Len(stdout[2].rows) = stdout[1].n
              /\ \A i \in 1..Len(stdout[2].rows) :
                    /\ DOMAIN stdout[2].rows[i] = {EmpId, CountCol}
                    /\ stdout[2].rows[i][EmpId] \in InputDupIds
           \/ IsNoDupOutput(stdout)
           \/ IsNotFoundOutput(stdout)
        /\ \A i \in 1..Len(stdout) :
              stdout[i].kind = "header" =>
                 i < Len(stdout) /\ stdout[i + 1].kind = "table"

C5_Witness ==
    /\ pc = "returned"
    /\ IsReport(stdout)
    /\ Len(stdout[2].rows) = 2

\* ------------------------------------------------------------------- C6
\* C6 as stated: if "EMP ID" is missing from any record, the run ends in an
\* uncaught failure and prints neither the no-duplicates line nor a report.
C6_AnyMissingFieldFails ==
    (Terminated /\ IsRecordsInput
        /\ \E i \in 1..Len(file.records) : ~Carries(file.records[i])) =>
        /\ pc = "raised"
        /\ ~Prints("nodups") /\ ~Prints("header") /\ ~Prints("table")

\* C6 as amended: if "EMP ID" is missing from every record (no record
\* carries it), the run ends in an uncaught KeyError and prints nothing; if
\* at least one record carries it, the run returns normally.
C6_FieldMissingEverywhereFails ==
    (Terminated /\ IsRecordsInput) =>
        IF \A i \in 1..Len(file.records) : ~Carries(file.records[i])
        THEN pc = "raised" /\ exc = "KeyError" /\ stdout = <<>>
        ELSE pc = "returned" /\ exc = "none"

C6_Witness ==
    /\ pc = "raised"
    /\ exc = "KeyError"
    /\ IsRecordsInput
    /\ Len(file.records) >= 2

\* ------------------------------------------------------------------- C7
\* C7: when the load fails for a reason other than file-not-found, no step
\* after the load runs, nothing is printed, and the run ends with that
\* exception leaving the function.
C7_OtherLoadFailuresPropagate ==
    (file.kind \in {"malformed", "unreadable"}) =>
        /\ pc \in {"load", "raised"}
        /\ stdout = <<>>
        /\ pc = "raised" => exc \in {"ValueError", "PermissionError"}
        /\ pc = "load" => exc = "none"

C7_Witness ==
    /\ file.kind = "malformed"
    /\ pc = "raised"
    /\ exc = "ValueError"
    /\ stdout = <<>>

\* ------------------------------------------------------------------- C8
\* C8: the duplicate subset is the frequency table restricted to counts
\* above 1; a printed table has no identifier that occurs once, only counts
\* of at least 2 and at most one row per identifier; the header is printed
\* only when the subset is non-empty.
C8_DuplicateSubsetIsRestriction ==
    /\ Filtered =>
          /\ Entries(duplicate_ids) = {e \in Entries(id_counts) : e.count > 1}
          /\ Len(duplicate_ids) = Cardinality(Entries(duplicate_ids))
    /\ TablePrinted =>
          /\ \A i \in 1..Len(TableRows) :
                /\ TableRows[i][CountCol] >= 2
                /\ InputCount(TableRows[i][EmpId]) # 1
          /\ \A i, j \in 1..Len(TableRows) :
                TableRows[i][EmpId] = TableRows[j][EmpId] => i = j
    /\ Prints("header") => Len(duplicate_ids) > 0

C8_Witness ==
    /\ TablePrinted
    /\ Len(TableRows) >= 1
    /\ \E id \in Ids : InputCount(id) = 1

\* ------------------------------------------------------------------- C9
\* C9: in a printed table the count of a row is at least the count of the
\* row after it.
C9_RowsDescendingByCount ==
    TablePrinted =>
        \A i \in 1..(Len(TableRows) - 1) :
            TableRows[i][CountCol] >= TableRows[i + 1][CountCol]

C9_Witness ==
    /\ TablePrinted
    /\ Len(TableRows) = 2
    /\ TableRows[1][CountCol] > TableRows[2][CountCol]

\* ------------------------------------------------------------------ C10
\* C10: no step changes the file, the record collection once loaded, or the
\* frequency table once built, and standard output only grows at its end.
C10_NoMutationAfterCreation ==
    [][/\ file' = file
       /\ file_name' = file_name
       /\ pc # "load" => df' = df
       /\ pc \notin {"load", "count"} => id_counts' = id_counts
       /\ Len(stdout') >= Len(stdout)
       /\ SubSeq(stdout', 1, Len(stdout)) = stdout]_vars

C10_Witness ==
    /\ pc = "returned"
    /\ IsReport(stdout)
    /\ Len(id_counts) > Len(duplicate_ids)
    /\ df = read_json(file.records)

====
